---- MODULE Spec2Model ----
(***************************************************************************)
(* Model of src/app.py: the Flask-SocketIO chat relay.  The module-level   *)
(* dictionaries active_rooms and messages are the store; every Socket.IO   *)
(* event handler is one action.  Handlers run to completion (eventlet      *)
(* green threads switch only on blocking calls, and the handlers make      *)
(* none), so one handler is one atomic step.                               *)
(*                                                                         *)
(* Strings that the code measures or trims (usernames, message texts) are  *)
(* sequences of one-character strings; identifiers that the code only      *)
(* compares (sids, room ids, payloads) are TLA+ strings.                   *)
(***************************************************************************)
EXTENDS Integers, Sequences, FiniteSets, TLC

(* ------------------------------ bounds -------------------------------- *)

\* Total number of messages the model lets send_message store.
MaxMsgs == 1

\* Total number of messages of the long-history specification.
MaxHistory == 60
MaxAppend == 3

(* ------------------------- program constants -------------------------- *)

MinUsernameLen == 2
MaxUsernameLen == 20
HistoryWindow == 50

\* Characters str.strip() removes: those str.isspace() is true of.  Listed
\* are the ones a string of the model can hold (a string literal takes no
\* character from U+2000 on): space, U+0009 to U+000D, U+001C to U+001F,
\* U+0085, U+00A0 and U+1680.
Whitespace ==
    { " ", "\t", "\n", "\r", "\f", "", "", "", "", "", "", " ", " " }

\* data.get('room_id', 'lobby')
DefaultRoom == "lobby"

\* active_rooms.get(...).get(request.sid, 'Someone')
Someone == <<"S", "o", "m", "e", "o", "n", "e">>

(* ------------------------------ inputs -------------------------------- *)

\* Session ids handed out by the transport; an sid is never reused.
Conns == {"c1", "c2", "c3"}

\* The sessions that connect in the specifications of two clients.
Clients == {"c1", "c2"}

\* Room ids clients supply.  "c1" is a room id that equals a session id:
\* room_id is any client string and sids are shown to peers (caller_sid).
\* The empty string is the room handle_offer looks at without room_id.
RoomIds == {"lobby", "c1", ""}

\* A key missing from the event's data dictionary.
Absent == "<absent>"

\* data.get('file') of an event without attachment.
NoFile == "None"

\* Values of 'file' that are not strings: the number 0, false, an empty
\* object and an empty array.
FileZero == "<0>"
FileFalse == "<False>"
FileEmptyDict == "<{}>"
FileEmptyList == "<[]>"

\* The values of 'file' that Python takes as false: None, the empty string
\* and the four above.
FalsyFiles == {NoFile, "", FileZero, FileFalse, FileEmptyDict, FileEmptyList}

Rep(n, ch) == [i \in 1..n |-> ch]

NameAl == <<"a", "l">>
NameAL == <<"A", "l">>
Name20 == Rep(20, "x")

NameBo == <<"b", "o">>

\* The username a session uses in the specifications that fix it.
ClientName(c) ==
    CASE c = "c1" -> NameAl
      [] c = "c2" -> NameAL
      [] OTHER -> NameBo

\* Raw 'username' values of join: two valid names that differ in case only,
\* and a padded name whose trimmed length is 1.
JoinUsernames == { NameAl, NameAL, <<"\n", "a", " ">> }

\* Raw 'username' values for the length rule: trimmed lengths 0, 1, 2, 20
\* and 21, most of them padded.
RawUsernames ==
    { <<"\r", "\n">>, <<"\n", "a", "\f">>, NameAl,
      <<" ">> \o Name20 \o <<"\r", "\n">>, <<"\t">> \o Rep(21, "x") }

\* Raw 'room_id' values of join: absent (the lobby) or the room named "c1".
JoinRooms == {Absent, "c1"}

\* Raw 'room_id' values of send_message, and its raw ('message', 'file')
\* values: a padded text, a blank text, a blank text with an attachment, a
\* blank text with an empty string as attachment.
SendRooms == {"lobby", "c1"}
TextHi == <<" ", "h", "i", "\n">>
TextBlank == <<" ", "\n">>
SendInputs ==
    { <<TextHi, NoFile>>, <<TextBlank, NoFile>>, <<TextBlank, "f1">>,
      <<TextBlank, "">> }

\* Raw 'target_sid' and 'room_id' values of the signaling events.
SignalTargets == {"c1", Absent}
SignalRooms == {"lobby"}
SignalPayloads == {"sdp1"}

(* ------------------------- string helpers ----------------------------- *)

\* str.strip(): drop leading and trailing whitespace.
RECURSIVE LStrip(_)
LStrip(s) == IF Len(s) > 0 /\ Head(s) \in Whitespace THEN LStrip(Tail(s)) ELSE s

RECURSIVE RStrip(_)
RStrip(s) ==
    IF Len(s) > 0 /\ s[Len(s)] \in Whitespace
    THEN RStrip(SubSeq(s, 1, Len(s) - 1))
    ELSE s

Strip(s) == LStrip(RStrip(s))

\* Variant: seq[:n], the oldest n.
LastN_oldest(seq, n) == IF Len(seq) <= n THEN seq ELSE SubSeq(seq, 1, n)

\* seq[-n:]
LastN(seq, n) ==
    IF Len(seq) <= n THEN seq ELSE SubSeq(seq, Len(seq) - n + 1, Len(seq))

System == <<"S", "y", "s", "t", "e", "m">>
HasJoined ==
    <<" ", "h", "a", "s", " ", "j", "o", "i", "n", "e", "d", " ",
      "t", "h", "e", " ", "r", "o", "o", "m">>
HasLeft ==
    <<" ", "h", "a", "s", " ", "l", "e", "f", "t", " ",
      "t", "h", "e", " ", "r", "o", "o", "m">>

(* ----------------- dictionaries (insertion ordered) ------------------- *)
\* A users dictionary {sid: username} is a sequence of [sid, username]
\* entries in insertion order; active_rooms {room_id: users} is a sequence
\* of [room_id, users] entries in insertion order.

Sids(users) == {users[i].sid : i \in DOMAIN users}

\* list(users.values())
Values(users) == [i \in DOMAIN users |-> users[i].username]

\* users[sid]
GetItem(users, sid) == users[CHOOSE i \in DOMAIN users : users[i].sid = sid].username

\* Variant: the entry is always added at the end.
SetItem_append(users, sid, username) ==
    Append(users, [sid |-> sid, username |-> username])

\* users[sid] = username : an existing key keeps its position.
SetItem(users, sid, username) ==
    IF sid \in Sids(users)
    THEN [i \in DOMAIN users |->
            IF users[i].sid = sid THEN [sid |-> sid, username |-> username]
            ELSE users[i]]
    ELSE Append(users, [sid |-> sid, username |-> username])

\* Variant: the first entry is deleted, whoever it belongs to.
DelItem_head(users, sid) == Tail(users)

\* del users[sid]
DelItem(users, sid) == SelectSeq(users, LAMBDA m : m.sid # sid)

RoomKeys(ar) == {ar[i].room_id : i \in DOMAIN ar}

\* active_rooms[room_id]
UsersOf(ar, room_id) ==
    ar[CHOOSE i \in DOMAIN ar : ar[i].room_id = room_id].users

\* active_rooms[room_id][sid] = username
SetUser(ar, room_id, sid, username) ==
    [i \in DOMAIN ar |->
        IF ar[i].room_id = room_id
        THEN [room_id |-> room_id, users |-> SetItem(ar[i].users, sid, username)]
        ELSE ar[i]]

\* The keys of a dictionary modelled as a function.
Keys(d) == DOMAIN d

\* del d[k]
DelKey(d, k) == [x \in (DOMAIN d) \ {k} |-> d[x]]

\* d[k] = v
PutKey(d, k, v) == [x \in (DOMAIN d) \cup {k} |-> IF x = k THEN v ELSE d[x]]

(* ------------------------------ state --------------------------------- *)

VARIABLES
    conn,          \* sid -> "new" | "live" | "gone" (the transport's sessions)
    active_rooms,  \* {room_id: {user_sid: username}}
    messages,      \* {room_id: [message, ...]}
    sio_rooms,     \* Socket.IO rooms: room name -> set of sids (join_room)
    next_id,       \* number of uuid4 message ids drawn so far
    outbox,        \* the emit() calls of the last handler, in order
    last,          \* the last handler call: event, sid, data, return value
    joined,        \* history variable: room id -> the connections whose last
                   \* successful membership action for that room was a join
    joining        \* sid -> the calls of on_join of the sid that are inside
                   \* their first emit, each by its locals username, room_id

vars ==
    <<conn, active_rooms, messages, sio_rooms, next_id, outbox, last, joined,
      joining>>

\* Names emit(room=...) can address: every sid is a room of its own.
RoomNames == RoomIds \cup Conns

\* The connected sessions: each is in the Socket.IO room named after it.
Connected(sio) == {c \in Conns : c \in sio[c]}

\* The sids an emit to room name `to` reaches.  SocketIO.emit passes
\* `to or room` on, so the empty string becomes None there: every connected
\* session of the namespace.
Participants(sio, to) ==
    IF to = "" THEN Connected(sio)
    ELSE IF to \in DOMAIN sio THEN sio[to] ELSE {}

AckSuccess == [status |-> "success"]
ErrInvalidUsername ==
    [status |-> "error", message |-> "Username must be 2-20 characters"]
ErrUsernameTaken == [status |-> "error", message |-> "Username already taken"]
ErrNotInRoom == [status |-> "error", message |-> "Not in room"]
ErrEmptyMessage == [status |-> "error", message |-> "Message cannot be empty"]
\* A handler without return statement.
NoAck == [status |-> "None"]

Init ==
    /\ conn = [c \in Conns |-> "new"]
    /\ active_rooms = << >>
    /\ messages = << >>
    /\ sio_rooms = [n \in RoomNames |-> {}]
    /\ next_id = 0
    /\ outbox = << >>
    /\ last = [op |-> "init", sid |-> "", data |-> << >>, result |-> NoAck]
    /\ joined = [r \in RoomIds |-> {}]
    /\ joining = [c \in Conns |-> << >>]

(* ----------------------------- connect -------------------------------- *)

\* handle_connect: the transport has entered the sid into the room named
\* after it; the handler only prints.
handle_connect(c) ==
    /\ conn[c] = "new"
    /\ conn' = [conn EXCEPT ![c] = "live"]
    /\ sio_rooms' = [sio_rooms EXCEPT ![c] = @ \cup {c}]
    /\ outbox' = << >>
    /\ last' = [op |-> "connect", sid |-> c, data |-> << >>, result |-> NoAck]
    /\ UNCHANGED <<active_rooms, messages, next_id, joined, joining>>

(* ------------------------------- join --------------------------------- *)

\* Variant: the upper limit is tested with >=.
InvalidUsername_offByOne(username) ==
    \/ Len(username) = 0
    \/ Len(username) < MinUsernameLen
    \/ Len(username) >= MaxUsernameLen

\* not username or len(username) < 2 or len(username) > 20
InvalidUsername(username) ==
    \/ Len(username) = 0
    \/ Len(username) < MinUsernameLen
    \/ Len(username) > MaxUsernameLen

\* Variant: only the first member's name is compared.
UsernameTaken_firstOnly(users, username) ==
    Len(users) > 0 /\ users[1].username = username

\* Variant: the duplicate check is left out.
UsernameTaken_off(users, username) == FALSE

\* username in active_rooms[room_id].values()
UsernameTaken(users, username) ==
    \E i \in DOMAIN users : users[i].username = username

\* Variant: the room is set to {} whether it exists or not.
CreateRoom_reset(ar, room_id) ==
    IF room_id \notin RoomKeys(ar)
    THEN Append(ar, [room_id |-> room_id, users |-> << >>])
    ELSE [i \in DOMAIN ar |->
            IF ar[i].room_id = room_id
            THEN [room_id |-> room_id, users |-> << >>]
            ELSE ar[i]]

\* if room_id not in active_rooms: active_rooms[room_id] = {}
CreateRoom(ar, room_id) ==
    IF room_id \notin RoomKeys(ar)
    THEN Append(ar, [room_id |-> room_id, users |-> << >>])
    ELSE ar

\* if room_id not in active_rooms: messages[room_id] = []
CreateHistory(ar, msgs, room_id) ==
    IF room_id \notin RoomKeys(ar) THEN PutKey(msgs, room_id, << >>) ELSE msgs

\* join_room(room_id)
JoinRoom(sio, room_id, sid) == [sio EXCEPT ![room_id] = @ \cup {sid}]

\* emit('join_confirmation', {...}) : no room given, so to = request.sid
JoinConfirmation(sio, ar, msgs, sid, username, room_id) ==
    [ event |-> "join_confirmation",
      to |-> Participants(sio, sid),
      username |-> username,
      room_id |-> room_id,
      users |-> Values(UsersOf(ar, room_id)),
      messages |-> LastN(msgs[room_id], HistoryWindow) ]

\* emit('user_joined', {...}, room=room_id, include_self=False)
UserJoined(sio, ar, sid, username, room_id) ==
    [ event |-> "user_joined",
      to |-> Participants(sio, room_id) \ {sid},
      username |-> System,
      message |-> username \o HasJoined,
      users |-> Values(UsersOf(ar, room_id)) ]

on_join_body(c, raw_username, raw_room) ==
    LET username == Strip(raw_username)
        room_id == IF raw_room = Absent THEN DefaultRoom ELSE raw_room
        data == [username |-> raw_username, room_id |-> raw_room]
        ar1 == CreateRoom(active_rooms, room_id)
        msgs1 == CreateHistory(active_rooms, messages, room_id)
        ar2 == SetUser(ar1, room_id, c, username)
        sio2 == JoinRoom(sio_rooms, room_id, c)
    IN  /\ IF InvalidUsername(username)
           THEN /\ last' = [op |-> "join", sid |-> c, data |-> data,
                            result |-> ErrInvalidUsername]
                /\ outbox' = << >>
                /\ UNCHANGED <<active_rooms, messages, sio_rooms, joined>>
           ELSE IF UsernameTaken(UsersOf(ar1, room_id), username)
           THEN /\ active_rooms' = ar1
                /\ messages' = msgs1
                /\ last' = [op |-> "join", sid |-> c, data |-> data,
                            result |-> ErrUsernameTaken]
                /\ outbox' = << >>
                /\ UNCHANGED <<sio_rooms, joined>>
           ELSE /\ active_rooms' = ar2
                /\ messages' = msgs1
                /\ sio_rooms' = sio2
                /\ outbox' =
                     << JoinConfirmation(sio2, ar2, msgs1, c, username, room_id),
                        UserJoined(sio2, ar2, c, username, room_id) >>
                /\ last' = [op |-> "join", sid |-> c, data |-> data,
                            result |-> AckSuccess]
                /\ joined' = [joined EXCEPT ![room_id] = @ \cup {c}]
        /\ UNCHANGED <<conn, next_id, joining>>

\* The transport starts the handler for the events of a live session.
on_join(c, raw_username, raw_room) ==
    /\ conn[c] = "live"
    /\ on_join_body(c, raw_username, raw_room)

(* ---------------------------- disconnect ------------------------------ *)

\* Variant: the entry is not deleted.
DelUser_keep(ar, room_id, sid) == ar

\* del users[request.sid], users being active_rooms[room_id]
DelUser(ar, room_id, sid) ==
    [i \in DOMAIN ar |->
        IF ar[i].room_id = room_id
        THEN [room_id |-> room_id, users |-> DelItem(ar[i].users, sid)]
        ELSE ar[i]]

\* Variant: the emptied room stays in the store, without its last member.
DelRoom_keep(ar, room_id) ==
    [i \in DOMAIN ar |->
        IF ar[i].room_id = room_id
        THEN [room_id |-> room_id, users |-> << >>]
        ELSE ar[i]]

\* if room_id in active_rooms: del active_rooms[room_id]
DelRoom(ar, room_id) == SelectSeq(ar, LAMBDA e : e.room_id # room_id)

\* if room_id in messages: del messages[room_id]
DelHistory(msgs, room_id) ==
    IF room_id \in Keys(msgs) THEN DelKey(msgs, room_id) ELSE msgs

\* emit('user_left', {...}, room=room_id).  The disconnecting sid is still
\* in the Socket.IO room while its handler runs, but its transport is
\* closed: nothing is delivered to it.
UserLeft(sio, users, sid, username, room_id) ==
    [ event |-> "user_left",
      to |-> Participants(sio, room_id) \ {sid},
      username |-> username,
      message |-> username \o HasLeft,
      users |-> Values(users) ]

\* for room_id, users in list(active_rooms.items()): ...
\* `items` is what is left of the snapshot; st = [ar, msgs, out] is the
\* store and the events emitted so far.
RECURSIVE Reap(_, _, _, _)
Reap(items, st, sio, sid) ==
    IF items = << >> THEN st
    ELSE
      LET room_id == Head(items).room_id
          users == Head(items).users
          left == DelItem(users, sid)
      IN  IF sid \notin Sids(users)
          THEN Reap(Tail(items), st, sio, sid)
          ELSE IF left # << >>
          THEN Reap(Tail(items),
                    [ ar |-> DelUser(st.ar, room_id, sid),
                      msgs |-> st.msgs,
                      out |-> Append(st.out,
                                UserLeft(sio, left, sid, GetItem(users, sid), room_id)) ],
                    sio, sid)
          ELSE Reap(Tail(items),
                    [ ar |-> DelRoom(st.ar, room_id),
                      msgs |-> DelHistory(st.msgs, room_id),
                      out |-> st.out ],
                    sio, sid)

\* After the handler the transport drops the sid from every Socket.IO room.
LeaveAll(sio, sid) == [n \in DOMAIN sio |-> sio[n] \ {sid}]

handle_disconnect(c) ==
    LET st == Reap(active_rooms,
                   [ar |-> active_rooms, msgs |-> messages, out |-> << >>],
                   sio_rooms, c)
    IN  /\ conn[c] = "live"
        /\ active_rooms' = st.ar
        /\ messages' = st.msgs
        /\ outbox' = st.out
        /\ sio_rooms' = LeaveAll(sio_rooms, c)
        /\ conn' = [conn EXCEPT ![c] = "gone"]
        /\ last' = [op |-> "disconnect", sid |-> c, data |-> << >>, result |-> NoAck]
        /\ joined' = [r \in RoomIds |-> joined[r] \ {c}]
        /\ UNCHANGED <<next_id, joining>>

(* --------------------------- send_message ----------------------------- *)

\* room_id not in active_rooms or request.sid not in active_rooms[room_id]
NotInRoom(ar, room_id, sid) ==
    \/ room_id \notin RoomKeys(ar)
    \/ sid \notin Sids(UsersOf(ar, room_id))

\* Variant: the emptiness check is left out.
EmptyMessage_off(message, file_info) == FALSE

\* not message and not file_info
EmptyMessage(message, file_info) ==
    Len(message) = 0 /\ file_info \in FalsyFiles

\* message_data; the uuid4 id is the number of the draw.
MessageData(id, username, message, file_info) ==
    [id |-> id, username |-> username, message |-> message, file |-> file_info]

\* Variant: the message is put in front of the history.
AppendMessage_prepend(msgs, room_id, message_data) ==
    [msgs EXCEPT ![room_id] = << message_data >> \o @]

\* messages[room_id].append(message_data)
AppendMessage(msgs, room_id, message_data) ==
    [msgs EXCEPT ![room_id] = Append(@, message_data)]

\* emit('new_message', message_data, room=room_id)
NewMessage(sio, room_id, message_data) ==
    [ event |-> "new_message",
      to |-> Participants(sio, room_id),
      data |-> message_data ]

\* The body of the handler, run for request.sid = c; a message is stored
\* while fewer than `cap` have been.
handle_message_body(cap, c, raw_room, raw_message, file_info) ==
    LET room_id == raw_room
        message == Strip(raw_message)
        data == [room_id |-> raw_room, message |-> raw_message, file |-> file_info]
    IN  /\ IF NotInRoom(active_rooms, room_id, c)
           THEN /\ last' = [op |-> "send_message", sid |-> c, data |-> data,
                            result |-> ErrNotInRoom]
                /\ outbox' = << >>
                /\ UNCHANGED <<messages, next_id>>
           ELSE IF EmptyMessage(message, file_info)
           THEN /\ last' = [op |-> "send_message", sid |-> c, data |-> data,
                            result |-> ErrEmptyMessage]
                /\ outbox' = << >>
                /\ UNCHANGED <<messages, next_id>>
           ELSE LET message_data ==
                      MessageData(next_id + 1,
                                  GetItem(UsersOf(active_rooms, room_id), c),
                                  message, file_info)
                IN  /\ next_id < cap
                    /\ next_id' = next_id + 1
                    /\ messages' = AppendMessage(messages, room_id, message_data)
                    /\ outbox' = << NewMessage(sio_rooms, room_id, message_data) >>
                    /\ last' = [op |-> "send_message", sid |-> c, data |-> data,
                                result |-> AckSuccess]
        /\ UNCHANGED <<conn, active_rooms, sio_rooms, joined, joining>>

\* The handler for an event of a connected session.
handle_message_upto(cap, c, raw_room, raw_message, file_info) ==
    /\ conn[c] = "live"
    /\ handle_message_body(cap, c, raw_room, raw_message, file_info)

handle_message(c, raw_room, raw_message, file_info) ==
    handle_message_upto(MaxMsgs, c, raw_room, raw_message, file_info)

(* --------------------------- join, in steps --------------------------- *)

\* on_join in the steps other handlers can run between: a handler gives up
\* control only inside a call that sends, and the arguments of a call are
\* evaluated before the call is entered.  join_store is the handler up to and
\* into its first emit (lines 112-136): the payload of join_confirmation is
\* read from the store in the same stretch as the write of line 128.  The
\* call then stands inside that emit, recorded in joining by its locals.
Pending(username, room_id) == [username |-> username, room_id |-> room_id]

RECURSIVE RemoveOne(_, _)
RemoveOne(s, x) ==
    IF s = << >> THEN s
    ELSE IF Head(s) = x THEN Tail(s)
    ELSE <<Head(s)>> \o RemoveOne(Tail(s), x)

IsPending(s, x) == \E i \in DOMAIN s : s[i] = x

\* What line 143 raises when the room of the join is no longer in the store.
RaisedKeyError == [status |-> "raised", message |-> "KeyError"]

join_store(c, raw_username, raw_room) ==
    LET username == Strip(raw_username)
        room_id == IF raw_room = Absent THEN DefaultRoom ELSE raw_room
        data == [username |-> raw_username, room_id |-> raw_room]
        ar1 == CreateRoom(active_rooms, room_id)
        msgs1 == CreateHistory(active_rooms, messages, room_id)
        ar2 == SetUser(ar1, room_id, c, username)
        sio2 == JoinRoom(sio_rooms, room_id, c)
    IN  /\ conn[c] = "live"
        /\ IF InvalidUsername(username)
           THEN /\ last' = [op |-> "join", sid |-> c, data |-> data,
                            result |-> ErrInvalidUsername]
                /\ outbox' = << >>
                /\ UNCHANGED <<active_rooms, messages, sio_rooms, joined,
                               joining>>
           ELSE IF UsernameTaken(UsersOf(ar1, room_id), username)
           THEN /\ active_rooms' = ar1
                /\ messages' = msgs1
                /\ last' = [op |-> "join", sid |-> c, data |-> data,
                            result |-> ErrUsernameTaken]
                /\ outbox' = << >>
                /\ UNCHANGED <<sio_rooms, joined, joining>>
           ELSE /\ active_rooms' = ar2
                /\ messages' = msgs1
                /\ sio_rooms' = sio2
                /\ outbox' =
                     << JoinConfirmation(sio2, ar2, msgs1, c, username, room_id) >>
                /\ joining' = [joining EXCEPT
                                 ![c] = Append(@, Pending(username, room_id))]
                /\ last' = [op |-> "join", sid |-> c, data |-> data,
                            result |-> NoAck]
                /\ joined' = [joined EXCEPT ![room_id] = @ \cup {c}]
        /\ UNCHANGED <<conn, next_id>>

\* The rest of the join of c whose locals are username and room_id, from the
\* return of its first emit (lines 139-147): the payload of user_joined is
\* read from the store as it is now, whatever happened to the session and to
\* the room in between, and line 143 raises when the room is gone.
join_emit_user_joined(c, username, room_id) ==
    /\ IsPending(joining[c], Pending(username, room_id))
    /\ joining' = [joining EXCEPT ![c] = RemoveOne(@, Pending(username, room_id))]
    /\ IF room_id \in RoomKeys(active_rooms)
       THEN /\ outbox' =
                 << UserJoined(sio_rooms, active_rooms, c, username, room_id) >>
            /\ last' = [op |-> "join", sid |-> c,
                        data |-> [username |-> username, room_id |-> room_id],
                        result |-> AckSuccess]
       ELSE /\ outbox' = << >>
            /\ last' = [op |-> "join", sid |-> c,
                        data |-> [username |-> username, room_id |-> room_id],
                        result |-> RaisedKeyError]
    /\ UNCHANGED <<conn, active_rooms, messages, sio_rooms, next_id, joined>>

(* ----------------------------- signaling ------------------------------ *)

\* emit(..., room=target_sid): flask_socketio.emit sends to request.sid
\* when no room is given (target_sid is None).
EmitTo(target_sid, sid) == IF target_sid = Absent THEN sid ELSE target_sid

\* active_rooms.get(data.get('room_id', ''), {}).get(request.sid, 'Someone')
CallerUsername(ar, raw_room, sid) ==
    LET room_id == IF raw_room = Absent THEN "" ELSE raw_room
    IN  IF room_id \in RoomKeys(ar) /\ sid \in Sids(UsersOf(ar, room_id))
        THEN GetItem(UsersOf(ar, room_id), sid)
        ELSE Someone

handle_offer(c, target_sid, offer, raw_room) ==
    /\ conn[c] = "live"
    /\ outbox' =
         << [ event |-> "webrtc_offer",
              to |-> Participants(sio_rooms, EmitTo(target_sid, c)),
              offer |-> offer,
              caller_sid |-> c,
              caller_username |-> CallerUsername(active_rooms, raw_room, c) ] >>
    /\ last' = [op |-> "webrtc_offer", sid |-> c,
                data |-> [target_sid |-> target_sid, offer |-> offer,
                          room_id |-> raw_room],
                result |-> NoAck]
    /\ UNCHANGED <<conn, active_rooms, messages, sio_rooms, next_id, joined,
                   joining>>

\* Variant: relaying an answer empties the histories.
handle_answer_clears(c, target_sid, answer) ==
    /\ conn[c] = "live"
    /\ outbox' =
         << [ event |-> "webrtc_answer",
              to |-> Participants(sio_rooms, EmitTo(target_sid, c)),
              answer |-> answer,
              sender_sid |-> c ] >>
    /\ last' = [op |-> "webrtc_answer", sid |-> c,
                data |-> [target_sid |-> target_sid, answer |-> answer],
                result |-> NoAck]
    /\ messages' = [r \in DOMAIN messages |-> << >>]
    /\ UNCHANGED <<conn, active_rooms, sio_rooms, next_id, joined, joining>>

handle_answer(c, target_sid, answer) ==
    /\ conn[c] = "live"
    /\ outbox' =
         << [ event |-> "webrtc_answer",
              to |-> Participants(sio_rooms, EmitTo(target_sid, c)),
              answer |-> answer,
              sender_sid |-> c ] >>
    /\ last' = [op |-> "webrtc_answer", sid |-> c,
                data |-> [target_sid |-> target_sid, answer |-> answer],
                result |-> NoAck]
    /\ UNCHANGED <<conn, active_rooms, messages, sio_rooms, next_id, joined,
                   joining>>

handle_ice_candidate(c, target_sid, candidate) ==
    /\ conn[c] = "live"
    /\ outbox' =
         << [ event |-> "ice_candidate",
              to |-> Participants(sio_rooms, EmitTo(target_sid, c)),
              candidate |-> candidate,
              sender_sid |-> c ] >>
    /\ last' = [op |-> "ice_candidate", sid |-> c,
                data |-> [target_sid |-> target_sid, candidate |-> candidate],
                result |-> NoAck]
    /\ UNCHANGED <<conn, active_rooms, messages, sio_rooms, next_id, joined,
                   joining>>

(* --------------------------- specification ---------------------------- *)

Connect == \E c \in Clients : handle_connect(c)
Disconnect == \E c \in Conns : handle_disconnect(c)
Join == \E c \in Conns, u \in JoinUsernames, r \in JoinRooms : on_join(c, u, r)
SendMessage ==
    \E c \in Conns, r \in SendRooms, mf \in SendInputs :
        handle_message(c, r, mf[1], mf[2])
Offer ==
    \E c \in Conns, t \in SignalTargets, p \in SignalPayloads, r \in SignalRooms :
        handle_offer(c, t, p, r)
Answer ==
    \E c \in Conns, t \in SignalTargets, p \in SignalPayloads :
        handle_answer(c, t, p)
IceCandidate ==
    \E c \in Conns, t \in SignalTargets, p \in SignalPayloads :
        handle_ice_candidate(c, t, p)

Next ==
    \/ Connect
    \/ Disconnect
    \/ Join
    \/ SendMessage
    \/ Offer
    \/ Answer
    \/ IceCandidate

Spec == Init /\ [][Next]_vars

\* The same program, with join drawing its usernames from RawUsernames.
JoinAnyName ==
    \E c \in Conns, u \in RawUsernames, r \in JoinRooms : on_join(c, u, r)

\* send_message of a plain text to the lobby.
SendLobby == \E c \in Conns : handle_message(c, DefaultRoom, TextHi, NoFile)

NextNames ==
    \/ Connect
    \/ Disconnect
    \/ JoinAnyName
    \/ SendLobby

SpecNames == Init /\ [][NextNames]_vars

\* The same program on one long history: the clients join the lobby under
\* fixed names and c1 sends up to MaxHistory plain texts to it.
JoinLobby == \E c \in Clients : on_join(c, ClientName(c), Absent)
SendLong ==
    \E c \in {"c1"} :
        handle_message_upto(MaxHistory, c, DefaultRoom, TextHi, NoFile)

NextHistory ==
    \/ Connect
    \/ Disconnect
    \/ JoinLobby
    \/ SendLong

SpecHistory == Init /\ [][NextHistory]_vars

\* The same program with three sessions, each joining under its fixed name
\* and sending plain texts.
ConnectAny == \E c \in Conns : handle_connect(c)
JoinNamed == \E c \in Conns, r \in JoinRooms : on_join(c, ClientName(c), r)
SendPlain ==
    \E c \in Conns, r \in SendRooms : handle_message(c, r, TextHi, NoFile)

NextThree ==
    \/ ConnectAny
    \/ Disconnect
    \/ JoinNamed
    \/ SendPlain

SpecThree == Init /\ [][NextThree]_vars

\* The program with three valid usernames for two sessions, so that a member
\* of a room of two can join it again under a free name.
JoinRenamed ==
    \E c \in Clients, u \in {NameAl, NameAL, NameBo}, r \in JoinRooms :
        on_join(c, u, r)

NextRename ==
    \/ Connect
    \/ Disconnect
    \/ JoinRenamed
    \/ SendLobby

SpecRename == Init /\ [][NextRename]_vars

\* The program with up to MaxAppend stored messages in two rooms, and sends
\* that fail.
JoinOwn == \E c \in Clients, r \in JoinRooms : on_join(c, ClientName(c), r)
SendSeveral ==
    \E c \in Clients, r \in SendRooms, m \in {TextHi, TextBlank} :
        handle_message_upto(MaxAppend, c, r, m, NoFile)

NextAppend ==
    \/ Connect
    \/ Disconnect
    \/ JoinOwn
    \/ SendSeveral

SpecAppend == Init /\ [][NextAppend]_vars

\* Joins of one room by three sessions, in the steps that can interleave,
\* with the disconnects of any of them, a session inside its own join
\* included.  With a single room a disconnect emits last, so it runs in one
\* step.
JoinStore == \E c \in Conns : join_store(c, ClientName(c), Absent)
JoinEmitUserJoined ==
    \E c \in Conns : join_emit_user_joined(c, ClientName(c), DefaultRoom)

NextRace ==
    \/ ConnectAny
    \/ Disconnect
    \/ JoinStore
    \/ JoinEmitUserJoined

SpecRace == Init /\ [][NextRace]_vars

\* The program with signaling calls of any target: a session id, a room id,
\* an id that is neither, the empty string, or none; and any room_id given
\* with an offer.  The sessions join the lobby and the room named by the
\* empty string.
AnyTargets == {"c1", "c2", "lobby", "zz", "", Absent}
AnyPayloads == {"sdp1", "sdp2"}
OfferRooms == {"lobby", "", Absent}
SignalJoinRooms == {Absent, ""}

JoinSignal ==
    \E c \in Clients, r \in SignalJoinRooms : on_join(c, ClientName(c), r)

SendOwn ==
    \E c \in Clients, r \in {DefaultRoom, ""} :
        handle_message(c, r, TextHi, NoFile)
OfferAny ==
    \E c \in Clients, t \in AnyTargets, p \in AnyPayloads, r \in OfferRooms :
        handle_offer(c, t, p, r)
AnswerAny ==
    \E c \in Clients, t \in AnyTargets, p \in AnyPayloads :
        handle_answer(c, t, p)
IceAny ==
    \E c \in Clients, t \in AnyTargets, p \in AnyPayloads :
        handle_ice_candidate(c, t, p)

NextSignal ==
    \/ Connect
    \/ Disconnect
    \/ JoinSignal
    \/ SendOwn
    \/ OfferAny
    \/ AnswerAny
    \/ IceAny

SpecSignal == Init /\ [][NextSignal]_vars

(* ------------------------------ claims -------------------------------- *)

\* The sids recorded as members of room r (none when r is not in the store).
MembersOf(ar, r) == IF r \in RoomKeys(ar) THEN Sids(UsersOf(ar, r)) ELSE {}

\* The rooms whose membership lists sid.
RoomsOf(ar, sid) == {r \in RoomKeys(ar) : sid \in MembersOf(ar, r)}

\* The target room of a join call.
JoinTarget(call) ==
    IF call.data.room_id = Absent THEN DefaultRoom ELSE call.data.room_id

\* Trimming, stated without Strip: the text between the first and the last
\* non-whitespace character.
Inked(raw) == {i \in DOMAIN raw : raw[i] \notin Whitespace}
Trimmed(raw) ==
    LET ink == Inked(raw)
    IN  IF ink = {} THEN << >>
        ELSE LET lo == CHOOSE i \in ink : \A j \in ink : i <= j
                 hi == CHOOSE i \in ink : \A j \in ink : j <= i
             IN  SubSeq(raw, lo, hi)

JoinSucceeded == last.op = "join" /\ last.result = AckSuccess
SendSucceeded == last.op = "send_message" /\ last.result = AckSuccess

\* C1: no connection id is in the membership of two distinct rooms at the
\* same time.
C1_AtMostOneRoom ==
    \A c \in Conns : Cardinality(RoomsOf(active_rooms, c)) <= 1

\* C2: every room in the store has at least one member, and a history list
\* exists for exactly the room ids of the store; the store holds each room id
\* once.
C2_NoEmptyRoom ==
    /\ \A i \in DOMAIN active_rooms : Len(active_rooms[i].users) > 0
    /\ Keys(messages) = RoomKeys(active_rooms)
    /\ Cardinality(RoomKeys(active_rooms)) = Len(active_rooms)

\* C2 witness: a disconnect emptied a room that held a stored message; the
\* room and its history are gone and another room is still in the store.
C2_Witness ==
    /\ last.op = "disconnect"
    /\ next_id = 1
    /\ Len(active_rooms) = 1
    /\ \A r \in Keys(messages) : messages[r] = << >>

\* C3: no two distinct connections of one room are recorded with the same
\* username.
C3_UniqueUsernames ==
    \A i \in DOMAIN active_rooms :
        \A j, k \in DOMAIN active_rooms[i].users :
            j # k =>
              active_rooms[i].users[j].username # active_rooms[i].users[k].username

\* C3 witness: a room of two members whose names differ in case only, while
\* one of these names is also held in another room.
C3_Witness ==
    \E i, j \in DOMAIN active_rooms :
        /\ i # j
        /\ Len(active_rooms[i].users) = 2
        /\ {NameAl, NameAL} =
             {active_rooms[i].users[k].username : k \in DOMAIN active_rooms[i].users}
        /\ \E k \in DOMAIN active_rooms[j].users :
              active_rooms[j].users[k].username \in {NameAl, NameAL}

\* C4: for every room, the members are exactly the connections whose last
\* successful membership action for that room was a join (no disconnect of
\* the connection since).
C4_MembersAreJoined ==
    \A r \in RoomIds : MembersOf(active_rooms, r) = joined[r]

\* C4 witness: after a disconnect, one connection is still joined to a room
\* and the disconnected one is in no room.
C4_Witness ==
    /\ last.op = "disconnect"
    /\ \E r \in RoomIds : joined[r] # {} /\ last.sid \notin joined[r]
    /\ Len(active_rooms) = 2

\* C5: a successful join of a connection that is a member of a different
\* room removes it from that room (the room is deleted when that empties it)
\* and the members that remain there are sent user_left.
C5_ImplicitLeave ==
    [][ (last'.op = "join" /\ last'.result = AckSuccess) =>
          \A r \in RoomsOf(active_rooms, last'.sid) \ {JoinTarget(last')} :
              /\ last'.sid \notin MembersOf(active_rooms', r)
              /\ MembersOf(active_rooms, r) = {last'.sid}
                    => r \notin RoomKeys(active_rooms')
              /\ MembersOf(active_rooms, r) # {last'.sid}
                    => \E n \in DOMAIN outbox' :
                          /\ outbox'[n].event = "user_left"
                          /\ outbox'[n].to = MembersOf(active_rooms, r) \ {last'.sid}
       ]_vars

\* The emit() calls of the last handler that carry the named event.
Emitted(event) == {n \in DOMAIN outbox : outbox[n].event = event}

\* C6: a successful join emits exactly one join_confirmation, delivered to
\* the joiner only, with the room id and the full member list (the joiner
\* in it), and a user_joined delivered to exactly the other members of the
\* room, with the updated member list.
C6_JoinEvents ==
    JoinSucceeded =>
      LET c == last.sid
          room == JoinTarget(last)
          members == Values(UsersOf(active_rooms, room))
      IN  /\ Cardinality(Emitted("join_confirmation")) = 1
          /\ Cardinality(Emitted("user_joined")) = 1
          /\ \A n \in Emitted("join_confirmation") :
                /\ outbox[n].to = {c}
                /\ outbox[n].room_id = room
                /\ outbox[n].users = members
                /\ \E k \in DOMAIN members : members[k] = Trimmed(last.data.username)
          /\ \A n \in Emitted("user_joined") :
                /\ outbox[n].to = MembersOf(active_rooms, room) \ {c}
                /\ outbox[n].users = members

\* C7: a successful send_message emits one new_message, delivered to exactly
\* the members of the room (the sender among them), whose author is the
\* sender's recorded username and whose text and attachment are the trimmed
\* text and the attachment sent.
C7_NewMessageToMembers ==
    SendSucceeded =>
      LET c == last.sid
          room == last.data.room_id
      IN  /\ Len(outbox) = 1
          /\ outbox[1].event = "new_message"
          /\ outbox[1].to = MembersOf(active_rooms, room)
          /\ c \in outbox[1].to
          /\ outbox[1].data.username = GetItem(UsersOf(active_rooms, room), c)
          /\ outbox[1].data.message = Trimmed(last.data.message)
          /\ outbox[1].data.file = last.data.file

\* The store is left as it was by the step.
StoreUnchanged == active_rooms' = active_rooms /\ messages' = messages

\* C8: send_message by a connection that is not a member of the named room
\* (the room may not exist) returns the "Not in room" error; by a member
\* with blank text and no attachment it returns the "Message cannot be
\* empty" error; both leave the store as it was and emit nothing.
C8_SendErrors ==
    [][ last'.op = "send_message" =>
          LET c == last'.sid
              room == last'.data.room_id
              blank == Inked(last'.data.message) = {} /\ last'.data.file = NoFile
          IN  /\ c \notin MembersOf(active_rooms, room) =>
                    /\ last'.result = ErrNotInRoom
                    /\ StoreUnchanged
                    /\ outbox' = << >>
              /\ (c \in MembersOf(active_rooms, room) /\ blank) =>
                    /\ last'.result = ErrEmptyMessage
                    /\ StoreUnchanged
                    /\ outbox' = << >>
       ]_vars

\* C8 witness: a member's blank message without attachment was refused
\* while the room held a stored message.
C8_Witness ==
    /\ last.op = "send_message"
    /\ last.result = ErrEmptyMessage
    /\ last.sid \in MembersOf(active_rooms, last.data.room_id)
    /\ Len(messages[last.data.room_id]) = 1

\* C9: a join whose trimmed username equals the username of a current member
\* of the target room returns the "Username already taken" error, leaves
\* the store as it was and emits nothing.
C9_TakenRejected ==
    [][ last'.op = "join" =>
          LET room == JoinTarget(last')
              name == Trimmed(last'.data.username)
          IN  (/\ room \in RoomKeys(active_rooms)
               /\ \E k \in DOMAIN UsersOf(active_rooms, room) :
                     UsersOf(active_rooms, room)[k].username = name)
              => /\ last'.result = ErrUsernameTaken
                 /\ StoreUnchanged
                 /\ outbox' = << >>
       ]_vars

\* C9 witness: a connection was refused a name held by another connection
\* of the target room, a room that holds a stored message.
C9_Witness ==
    /\ last.op = "join"
    /\ last.result = ErrUsernameTaken
    /\ last.sid \notin MembersOf(active_rooms, JoinTarget(last))
    /\ Len(messages[JoinTarget(last)]) = 1

\* C10: a join returns the "Username must be 2-20 characters" error exactly
\* when the trimmed username has fewer than 2 or more than 20 characters,
\* and such a join leaves the store as it was and emits nothing.
C10_LengthRule ==
    [][ last'.op = "join" =>
          LET n == Len(Trimmed(last'.data.username))
          IN  /\ last'.result = ErrInvalidUsername <=> (n < 2 \/ n > 20)
              /\ last'.result = ErrInvalidUsername =>
                    StoreUnchanged /\ outbox' = << >>
       ]_vars

\* C10 witness: a padded 21-character name was refused for a room that does
\* not exist, while the lobby has members named with 2 and with 20
\* characters and holds a stored message.
C10_Witness ==
    /\ last.op = "join"
    /\ last.result = ErrInvalidUsername
    /\ Len(last.data.username) = 22
    /\ Len(Trimmed(last.data.username)) = 21
    /\ JoinTarget(last) \notin RoomKeys(active_rooms)
    /\ \E i \in DOMAIN active_rooms :
          /\ {Len(u.username) : u \in {active_rooms[i].users[k] :
                                        k \in DOMAIN active_rooms[i].users}} = {2, 20}
          /\ Len(messages[active_rooms[i].room_id]) = 1

\* C11: the history of a join_confirmation is the last min(50, n) messages
\* of the room's n messages, in the order of the history; after 60 sends it
\* is the 11th to the 60th message.
C11_ReplayWindow ==
    JoinSucceeded =>
      LET hist == messages[JoinTarget(last)]
          n == Len(hist)
          k == IF n < 50 THEN n ELSE 50
      IN  \A e \in Emitted("join_confirmation") :
             /\ Len(outbox[e].messages) = k
             /\ \A i \in 1..k : outbox[e].messages[i] = hist[n - k + i]
             /\ n = 60 => \A i \in 1..k : outbox[e].messages[i].id = 10 + i

\* C11 witness: c2 joined the lobby after 60 sends and was shown 50
\* messages, the first of them the 11th.
C11_Witness ==
    /\ JoinSucceeded
    /\ last.sid = "c2"
    /\ Len(messages[DefaultRoom]) = 60
    /\ Len(outbox[1].messages) = 50
    /\ outbox[1].messages[1].id = 11
    /\ outbox[1].messages[50].id = 60

\* The users of room r without the entry of sid, the others in their order.
Others(ar, r, sid) == SelectSeq(UsersOf(ar, r), LAMBDA m : m.sid # sid)

\* The rooms of sid that have other members too.
SharedRooms(ar, sid) == {r \in RoomsOf(ar, sid) : MembersOf(ar, r) # {sid}}

\* What a disconnect does to the store: a room of which the session was the
\* sole member is removed with its history; a room it shared keeps its other
\* members and its history.
DisconnectStore ==
    LET c == last'.sid
    IN  /\ \A r \in RoomsOf(active_rooms, c) \ SharedRooms(active_rooms, c) :
              r \notin RoomKeys(active_rooms') /\ r \notin Keys(messages')
        /\ \A r \in SharedRooms(active_rooms, c) :
              /\ r \in RoomKeys(active_rooms')
              /\ UsersOf(active_rooms', r) = Others(active_rooms, r, c)
              /\ messages'[r] = messages[r]

\* What a disconnect emits: one user_left for every room the session shared,
\* with the departed username and the updated member list, and nothing else.
DisconnectEvents ==
    LET c == last'.sid
    IN  /\ Len(outbox') = Cardinality(SharedRooms(active_rooms, c))
        /\ \A n \in DOMAIN outbox' : outbox'[n].event = "user_left"
        /\ \A r \in SharedRooms(active_rooms, c) :
              \E n \in DOMAIN outbox' :
                 /\ outbox'[n].username = GetItem(UsersOf(active_rooms, r), c)
                 /\ outbox'[n].users = Values(Others(active_rooms, r, c))

\* The user_left of every shared room is delivered to exactly the members
\* that remain in it.
DisconnectRecipients ==
    LET c == last'.sid
    IN  \A r \in SharedRooms(active_rooms, c) :
           \E n \in DOMAIN outbox' :
              /\ outbox'[n].username = GetItem(UsersOf(active_rooms, r), c)
              /\ outbox'[n].users = Values(Others(active_rooms, r, c))
              /\ outbox'[n].to = MembersOf(active_rooms, r) \ {c}

\* C12: disconnecting the sole member of a room removes the room and its
\* history and emits no user_left; disconnecting one of several members
\* leaves the others and produces exactly one user_left, with the departed
\* username and the updated member list, delivered to those who remain.
C12_DisconnectEffect ==
    [][ last'.op = "disconnect" =>
          DisconnectStore /\ DisconnectEvents /\ DisconnectRecipients ]_vars

\* C13: a session whose disconnect has been processed is a member of no
\* room, so that the membership test of send_message answers not-in-room
\* for it whatever room the send names; every member of every room is a
\* connected session.
C13_GoneIsOut ==
    /\ \A c \in Conns : conn[c] = "gone" =>
          /\ RoomsOf(active_rooms, c) = {}
          /\ \A r \in RoomIds : NotInRoom(active_rooms, r, c)
    /\ \A r \in RoomKeys(active_rooms) :
          \A m \in MembersOf(active_rooms, r) : conn[m] = "live"

\* The disconnect of a session that was a member of two rooms, each with
\* another member and both still there.
C13_Witness ==
    /\ last.op = "disconnect" /\ conn[last.sid] = "gone"
    /\ Len(outbox) = 2
    /\ \A n \in DOMAIN outbox : outbox[n].event = "user_left"
    /\ Len(active_rooms) = 2

SignalOps == {"webrtc_offer", "webrtc_answer", "ice_candidate"}

\* The last call was a signaling relay.
Signalled == last.op \in SignalOps

\* The target given with the last signaling call is a connected session.
TargetConnected ==
    last.data.target_sid \in Conns /\ conn[last.data.target_sid] = "live"

\* C14: a signaling relay whose target id is not a connected session (it
\* never existed or has disconnected) delivers no event to any session and
\* returns nothing to the sender.
C14_DeadTargetSilent ==
    (Signalled /\ last.data.target_sid # Absent /\ ~TargetConnected) =>
       /\ \A n \in DOMAIN outbox : outbox[n].to = {}
       /\ last.result = NoAck

\* The name of the payload field of a signaling event.
PayloadField(op) ==
    CASE op = "webrtc_offer" -> "offer"
      [] op = "webrtc_answer" -> "answer"
      [] op = "ice_candidate" -> "candidate"

\* C15: a signaling relay produces at most one event, of the kind of the
\* call; nobody but the session whose id is the given target receives it
\* (not the sender, not the members of a room that bears the target as its
\* id), and it carries the payload as it was sent.
C15_OnlyTarget ==
    Signalled =>
       /\ Len(outbox) <= 1
       /\ \A n \in DOMAIN outbox :
             /\ outbox[n].event = last.op
             /\ outbox[n].to \subseteq {last.data.target_sid}
             /\ outbox[n][PayloadField(last.op)] = last.data[PayloadField(last.op)]

\* The usernames the session holds in the rooms it is a member of.
NamesOf(ar, sid) == {GetItem(UsersOf(ar, r), sid) : r \in RoomsOf(ar, sid)}

\* The relayed event names its sender as the claim says: by a username the
\* sender holds in a room, or by the marker when it is in no room.
NamesSender(e) ==
    /\ "caller_username" \in DOMAIN e
    /\ IF RoomsOf(active_rooms, last.sid) = {}
       THEN e.caller_username = Someone
       ELSE e.caller_username \in NamesOf(active_rooms, last.sid)

\* C16: a relayed signaling event carries the username of its sender
\* whenever the sender is a member of some room, whatever room that is, and
\* the unknown-sender marker only when the sender is in no room.
C16_SenderUsername ==
    Signalled => \A n \in DOMAIN outbox : NamesSender(outbox[n])

\* C17: when sessions with different valid usernames join the same room
\* that does not exist yet, then however the steps of their join handlers
\* interleave, the store holds one room of that id, every session that has
\* joined it and not disconnected is a member of it under its own name, and
\* at no point between two steps does a room exist without members.
C17_ConcurrentJoins ==
    /\ \A i \in DOMAIN active_rooms : active_rooms[i].users # << >>
    /\ \A i, j \in DOMAIN active_rooms :
          active_rooms[i].room_id = active_rooms[j].room_id => i = j
    /\ \A r \in RoomIds : \A c \in joined[r] :
          /\ c \in MembersOf(active_rooms, r)
          /\ GetItem(UsersOf(active_rooms, r), c) = ClientName(c)

\* Two join handlers are running at once, neither has returned, and both
\* sessions are members of the room one of them created.
C17_Witness ==
    /\ joining["c1"] # << >> /\ joining["c2"] # << >>
    /\ conn["c1"] = "live" /\ conn["c2"] = "live"
    /\ conn["c3"] = "new"
    /\ MembersOf(active_rooms, DefaultRoom) = {"c1", "c2"}
    /\ Len(active_rooms) = 1

\* C18: handling webrtc_offer, webrtc_answer or ice_candidate leaves the
\* membership and the history of every room as they were, whoever sends,
\* whatever the target and the payload are, whether the target exists or not.
C18_RelayKeepsStore ==
    [][ last'.op \in SignalOps => StoreUnchanged ]_vars

\* A relay to a target that does not exist, while two rooms with members
\* and a stored message exist.
C18_Witness ==
    /\ Signalled /\ last.data.target_sid = "zz"
    /\ Len(active_rooms) = 2
    /\ next_id = 1

\* The step is a successful send_message to room r.
SentTo(r) ==
    /\ last'.op = "send_message" /\ last'.result = AckSuccess
    /\ last'.data.room_id = r

\* The history of r after the step is the one before it with one message
\* more at its end.
OneMore(r) ==
    /\ Len(messages'[r]) = Len(messages[r]) + 1
    /\ \A i \in 1..Len(messages[r]) : messages'[r][i] = messages[r][i]

\* C19: while a room exists its history is append-only: a successful
\* send_message to it adds one message at the end and leaves the earlier
\* ones in place, and leaves the history of every other room as it was; a
\* join or a failed send changes no history; a history is discarded only by
\* the disconnect of the last member of its room.
C19_AppendOnly ==
    [][ \A r \in RoomIds :
          /\ (r \in Keys(messages) /\ r \in Keys(messages')) =>
                IF SentTo(r) THEN OneMore(r) ELSE messages'[r] = messages[r]
          /\ (r \in Keys(messages) /\ r \notin Keys(messages')) =>
                /\ last'.op = "disconnect"
                /\ MembersOf(active_rooms, r) = {last'.sid}
          /\ (r \notin Keys(messages) /\ r \in Keys(messages')) =>
                messages'[r] = << >> ]_vars

\* A third message has been stored, the second of its room, while the other
\* room holds the first.
C19_Witness ==
    /\ SendSucceeded /\ last.data.room_id = DefaultRoom
    /\ Keys(messages) = SendRooms
    /\ Len(messages[DefaultRoom]) = 2 /\ Len(messages["c1"]) = 1
    /\ messages[DefaultRoom][2].id = 3

\* The step is a successful join of a room by a session that is a member of
\* that room already.
Rejoined ==
    /\ last'.op = "join" /\ last'.result = AckSuccess
    /\ last'.sid \in MembersOf(active_rooms, JoinTarget(last'))

\* C20: a successful join by a member of the target room replaces the
\* username of that session in place: the room has as many members as
\* before, in the same order, the others with their names; the session holds
\* one username, the new one; the previous username is held by nobody in the
\* room; and no user_left is emitted.
C20_RenameInPlace ==
    [][ Rejoined =>
          LET c == last'.sid
              old == UsersOf(active_rooms, JoinTarget(last'))
              new == UsersOf(active_rooms', JoinTarget(last'))
          IN  /\ Len(new) = Len(old)
              /\ \A i \in DOMAIN old :
                    /\ new[i].sid = old[i].sid
                    /\ old[i].sid # c => new[i] = old[i]
                    /\ old[i].sid = c =>
                          /\ new[i].username = Trimmed(last'.data.username)
                          /\ new[i].username # old[i].username
              /\ Cardinality({i \in DOMAIN new : new[i].sid = c}) = 1
              /\ \A i \in DOMAIN new : new[i].username # GetItem(old, c)
              /\ \A n \in DOMAIN outbox' : outbox'[n].event # "user_left" ]_vars

\* The last call was a successful join by the first of the two members of
\* the lobby: it was a member before the second one joined.
C20_Witness ==
    /\ JoinSucceeded /\ last.sid = "c1" /\ JoinTarget(last) = DefaultRoom
    /\ DefaultRoom \in RoomKeys(active_rooms)
    /\ Len(UsersOf(active_rooms, DefaultRoom)) = 2
    /\ UsersOf(active_rooms, DefaultRoom)[1].sid = "c1"
    /\ UsersOf(active_rooms, DefaultRoom)[2].sid = "c2"

====
